---- MODULE Spec2Model ----
(***************************************************************************)
(* The drift-triggered retraining control loop of Auto-Ops:                *)
(*   src/src/drift_detector.py      check_drift, trigger_retraining,       *)
(*                                  monitor_drift                          *)
(*   src/airflow/dags/retrain_dag.py  check_retrain_trigger and the DAG    *)
(* Numbers with a fractional part (scores, thresholds) are held in tenths: *)
(* 5 stands for 0.5 and 10 for 1.0.                                        *)
(***************************************************************************)
EXTENDS Integers, Sequences, FiniteSets, TLC

\* ------------------------------------------------------------- bounds
\* Longest 'metrics' list the drift report holds.
MaxMetrics == 2
\* Largest number of rows of a reference or current sample.
MaxSamples == 2

\* ------------------------------------------------------ Python values
\* A Python value as the drift report may hold it under 'dataset_drift':
\* its type, and its payload (b for a bool, n in tenths for a number).
PyBool(x) == [ty |-> "bool", b |-> x, n |-> 0]
PyInt(k) == [ty |-> "int", b |-> FALSE, n |-> 10 * k]
PyFloat(t) == [ty |-> "float", b |-> FALSE, n |-> t]
PyStr == [ty |-> "str", b |-> FALSE, n |-> 0]
PyNone == [ty |-> "NoneType", b |-> FALSE, n |-> 0]

\* Thresholds the caller passes (tenths): 0.0, 0.5 (the default), 1.0.
Thresholds == {0, 5, 10}
\* Float scores the collaborator may report (tenths), around each threshold.
FloatScores == {-1, 0, 4, 5, 6, 10, 11}
IntScores == {0, 1}

DriftValues ==
    {PyBool(TRUE), PyBool(FALSE), PyStr, PyNone}
        \cup {PyInt(k) : k \in IntScores}
        \cup {PyFloat(t) : t \in FloatScores}

\* isinstance(v, bool)
IsBool(v) == v.ty = "bool"
\* isinstance(v, (int, float)): bool is a subclass of int in Python.
IsIntOrFloat(v) == v.ty \in {"bool", "int", "float"}
\* The number a value counts as in a comparison (True is 1, False is 0).
NumberOf(v) == IF v.ty = "bool" THEN (IF v.b THEN 10 ELSE 0) ELSE v.n
\* float(v)
ToFloat(v) == PyFloat(NumberOf(v))
\* ------------------------------------------------- the drift report
\* One entry of report_dict['metrics']:
\*   kind   "nondict"  not a dict (metric.get raises AttributeError)
\*          "other"    a dict of another metric (DataDriftTable)
\*          "dataset"  a dict with metric == 'DatasetDriftMetric'
\*   result (of a "dataset" entry)
\*          "missing"  no 'result' key
\*          "nondict"  'result' is not a dict (.get raises AttributeError)
\*          "nokey"    a dict without 'dataset_drift'
\*          "value"    a dict whose 'dataset_drift' is value
NotADict == [kind |-> "nondict", result |-> "missing", value |-> PyNone]
OtherMetric == [kind |-> "other", result |-> "missing", value |-> PyNone]
DatasetMetric(r, v) == [kind |-> "dataset", result |-> r, value |-> v]

MetricEntries ==
    {NotADict, OtherMetric}
        \cup {DatasetMetric(r, PyNone) : r \in {"missing", "nondict", "nokey"}}
        \cup {DatasetMetric("value", v) : v \in DriftValues}

SeqsUpTo(S, n) == UNION {[1..k -> S] : k \in 0..n}

\* What the drift-statistics collaborator does for one check_drift call:
\*   run     "ok" | "raise"   Report.run (and as_dict) returns or raises
\*   shape   "dict"     report_dict is a dict with a 'metrics' list
\*           "nokey"    report_dict is a dict without 'metrics'
\*           "notlist"  report_dict['metrics'] is not iterable
\*           "notdict"  report_dict is not a dict
Report(run, shape, metrics) == [run |-> run, shape |-> shape, metrics |-> metrics]

ReportsUpTo(n) ==
    {Report("ok", "dict", ms) : ms \in SeqsUpTo(MetricEntries, n)}
        \cup {Report("ok", s, <<>>) : s \in {"nokey", "notlist", "notdict"}}
        \cup {Report("raise", "dict", <<>>)}

Reports == ReportsUpTo(MaxMetrics)

\* ------------------------------------------------------- check_drift
\* The state of the two locals of check_drift.
Locals(detected, score, raised) ==
    [drift_detected |-> detected, drift_score |-> score, raised |-> raised]

\* Interpret with >= for >.
InterpretGE(v, threshold) ==
    IF IsBool(v) THEN Locals(v.b, v, FALSE)
    ELSE IF IsIntOrFloat(v) THEN Locals(NumberOf(v) >= threshold, ToFloat(v), FALSE)
    ELSE Locals(FALSE, v, FALSE)

\* Interpret with the two isinstance tests in the other order.
InterpretNumberFirst(v, threshold) ==
    IF IsIntOrFloat(v) THEN Locals(NumberOf(v) > threshold, ToFloat(v), FALSE)
    ELSE IF IsBool(v) THEN Locals(v.b, v, FALSE)
    ELSE Locals(FALSE, v, FALSE)

\* Lines 143-148: the value read under 'dataset_drift' is stored in
\* drift_score, then interpreted by its type: a bool is the verdict, a
\* number is compared with the threshold and converted, anything else
\* stays in drift_score with the verdict False.
Interpret(v, threshold) ==
    IF IsBool(v) THEN Locals(v.b, v, FALSE)
    ELSE IF IsIntOrFloat(v) THEN Locals(NumberOf(v) > threshold, ToFloat(v), FALSE)
    ELSE Locals(FALSE, v, FALSE)

\* Line 143: metric.get('result', {}).get('dataset_drift', False)
DatasetDriftOf(entry) ==
    IF entry.result = "value" THEN entry.value ELSE PyBool(FALSE)

\* Lines 141-149: the loop over the metrics, from entry i on; it stops at
\* the first DatasetDriftMetric entry. raised: an exception left the loop.
RECURSIVE ScanMetrics(_, _, _)
ScanMetrics(metrics, i, threshold) ==
    IF i > Len(metrics) THEN Locals(FALSE, PyFloat(0), FALSE)
    ELSE IF metrics[i].kind = "nondict" THEN Locals(FALSE, PyFloat(0), TRUE)
    ELSE IF metrics[i].kind = "other" THEN ScanMetrics(metrics, i + 1, threshold)
    ELSE IF metrics[i].result = "nondict" THEN Locals(FALSE, PyFloat(0), TRUE)
    ELSE Interpret(DatasetDriftOf(metrics[i]), threshold)

\* Lines 135-153: the try block and its handler, which resets
\* drift_detected and leaves drift_score as it stands.
ExtractDrift(report, threshold) ==
    LET got == IF report.shape = "dict" THEN ScanMetrics(report.metrics, 1, threshold)
               ELSE IF report.shape = "nokey" THEN Locals(FALSE, PyFloat(0), FALSE)
               ELSE Locals(FALSE, PyFloat(0), TRUE)
    IN  IF got.raised THEN Locals(FALSE, got.drift_score, FALSE) ELSE got

NoVerdict ==
    [drift_detected |-> FALSE, drift_score |-> PyNone, threshold |-> 0,
     reference_samples |-> 0, current_samples |-> 0]

\* check_drift(reference_data, current_data, threshold): Report.run and
\* as_dict are called outside the try block, so their exception leaves
\* check_drift; otherwise it returns (drift_detected, drift_info).
check_drift(report, threshold, nref, ncur) ==
    IF report.run = "raise"
    THEN [status |-> "raised", drift_detected |-> FALSE, drift_info |-> NoVerdict]
    ELSE LET got == ExtractDrift(report, threshold)
         IN  [status |-> "returned",
              drift_detected |-> got.drift_detected,
              drift_info |-> [drift_detected |-> got.drift_detected,
                              drift_score |-> got.drift_score,
                              threshold |-> threshold,
                              reference_samples |-> nref,
                              current_samples |-> ncur]]

\* ------------------------------------------------ trigger_retraining
\* What the run-creation request to the orchestration service does:
\* requests.post raises (unreachable, timeout) or answers with a status.
Raises == [raised |-> TRUE, status_code |-> 0]
Answers(code) == [raised |-> FALSE, status_code |-> code]
NoRequest == [raised |-> FALSE, status_code |-> 0]
PrimaryOutcomes == {Raises} \cup {Answers(c) : c \in {200, 201, 202, 401, 500}}

\* Line 209: response.status_code in [200, 201]
PrimaryAccepted(primary) == ~primary.raised /\ primary.status_code \in {200, 201}

\* trigger_retraining without the handler of line 214.
trigger_retraining_propagates(primary, m) ==
    IF primary.raised THEN [raised |-> TRUE, ret |-> FALSE, marker |-> m]
    ELSE IF PrimaryAccepted(primary) THEN [raised |-> FALSE, ret |-> TRUE, marker |-> m]
    ELSE [raised |-> FALSE, ret |-> TRUE, marker |-> TRUE]

\* trigger_retraining without the return of line 211.
trigger_retraining_touches(primary, m) ==
    [raised |-> FALSE, ret |-> TRUE, marker |-> TRUE]

\* trigger_retraining with a touch that removes a file already there.
trigger_retraining_toggles(primary, m) ==
    IF PrimaryAccepted(primary)
    THEN [raised |-> FALSE, ret |-> TRUE, marker |-> m]
    ELSE [raised |-> FALSE, ret |-> TRUE, marker |-> ~m]

\* trigger_retraining(), called with the marker file in state m (TRUE:
\* the file exists): the value returned and the marker afterwards. A
\* request answered 200 or 201 returns at once; any other answer and any
\* exception of the request falls through to trigger_file.touch().
trigger_retraining(primary, m) ==
    IF PrimaryAccepted(primary)
    THEN [raised |-> FALSE, ret |-> TRUE, marker |-> m]
    ELSE [raised |-> FALSE, ret |-> TRUE, marker |-> TRUE]

\* --------------------------------------------- check_retrain_trigger
\* trigger_file.exists()
exists(m) == m

\* check_retrain_trigger without the unlink of line 51.
unlink_keeps(m) == [raised |-> ~m, marker |-> m]

\* unlink(missing_ok=True): no exception when the file is gone.
unlink_missing_ok(m) == [raised |-> FALSE, marker |-> FALSE]

\* trigger_file.unlink(): removes the file, FileNotFoundError without one.
unlink(m) == [raised |-> ~m, marker |-> FALSE]

\* ------------------------------------------------------------- the DAG
\* Line 132: check_trigger_task >> get_month_task >> ingest_task >>
\* train_task >> update_serving_task
TaskOrder ==
    <<"check_retrain_trigger", "get_latest_month", "ingest_new_data",
      "retrain_model", "update_serving_model">>

Downstream == {TaskOrder[i] : i \in 2..Len(TaskOrder)}

\* A chain in which check_trigger_task is followed by ingest_task.
NextTask_skips(t) ==
    IF t = "check_retrain_trigger" THEN "ingest_new_data"
    ELSE LET i == CHOOSE k \in 1..Len(TaskOrder) : TaskOrder[k] = t
         IN  IF i = Len(TaskOrder) THEN "success" ELSE TaskOrder[i + 1]

\* The task after task t of the chain, "success" after the last one.
NextTask(t) ==
    LET i == CHOOSE k \in 1..Len(TaskOrder) : TaskOrder[k] = t
    IN  IF i = Len(TaskOrder) THEN "success" ELSE TaskOrder[i + 1]

\* default_args['retries']
retries == 1

\* The orchestration runs that may be active: one in Spec (the scheduler
\* runs the DAG single-flight), both in SpecRace.
Runs == {"run1", "run2"}

\* The number of trigger_retraining calls on one unconsumed marker that is
\* counted.
MaxBurst == 3

\* The number of marker touches not yet matched by a check that returned
\* true that is counted; further touches leave the count at this value.
MaxCredit == 2
SingleFlight == {"run1"}

\* ---------------------------------------------------------------- state
VARIABLES
    marker,   \* the file airflow/trigger_retrain.flag exists
    mon,      \* the monitoring process: its position in monitor_drift and
              \* what the cycle has done so far
    trig,     \* the trigger_retraining call of the current or last cycle
    run,      \* per orchestration run: its position in the DAG, the try of
              \* the current task, the XComs, the tasks that have executed
    unconsumed, \* marker touches less checks that returned true (counted up to MaxCredit)
    burst,    \* fallback calls of trigger_retraining on a marker not yet consumed
    checks,   \* the values returned by the check_retrain_trigger calls
              \* since the last trigger_retraining call (the last two)
    call,     \* the arguments of a check_drift call
    result,   \* what that check_drift call did
    server,   \* the serving process: started or not, and the model it holds
    last,     \* the last prediction request and its response
    errors,   \* the number of 500 responses so far (up to MaxErrors)
    rows,     \* the raw records handed to preprocess_data
    cleaned,  \* what preprocess_data returned for them
    api,      \* a get_predictions_from_api call: its loop and its data
    clock,    \* the datetime.now() a get_latest_month call reads
    latest,   \* what that get_latest_month call returned
    disk,     \* the partition files in the data directory
    dl        \* the last download_nyc_taxi_data call

\* The variables of the serving process, of ingestion and of sampling.
others == <<server, last, errors, rows, cleaned, api>>

\* The variables of the month resolution and of the data directory.
storage == <<clock, latest, disk, dl>>

vars == <<marker, mon, trig, run, checks, burst, unconsumed, call, result, others, storage>>

NoReport == Report("none", "none", <<>>)

IdleMonitor ==
    [pc |-> "idle", current_month |-> "none", report |-> NoReport,
     check |-> "none", drift_detected |-> FALSE, outcome |-> "none",
     ret |-> FALSE, triggers |-> 0, loads |-> "none"]

NoTrigger ==
    [called |-> FALSE, primary |-> NoRequest, before |-> FALSE,
     after |-> FALSE, ret |-> FALSE, raised |-> FALSE]

\* No month: nothing returned by get_latest_month, no XCom pushed.
NoMonth == <<>>

IdleRun ==
    [pc |-> "idle", try_number |-> 1, seen |-> FALSE, ret |-> "none",
     after |-> FALSE, ran |-> {}, raced |-> FALSE, touched |-> FALSE,
     done |-> <<>>,
     xcom |-> [get_latest_month |-> NoMonth, ingest_new_data |-> NoMonth],
     ingested |-> NoMonth, trained |-> NoMonth, lost |-> FALSE]

NoCall ==
    [report |-> NoReport, threshold |-> 0, reference_samples |-> 0,
     current_samples |-> 0]

Pending == [status |-> "pending", drift_detected |-> FALSE, drift_info |-> NoVerdict]

\* No request yet.
NoRequestYet ==
    [endpoint |-> "none", trips |-> <<>>, outcome |-> "none", status_code |-> 0,
     predict_calls |-> 0, durations |-> 0, model_version |-> FALSE]

\* The serving module not imported yet.
NotStarted ==
    [status |-> "starting", source |-> "none", features |-> "none",
     tried |-> <<>>, registry |-> "none", local |-> "none"]

\* No get_predictions_from_api call yet.
NoSampling == [pc |-> "idle", n_samples |-> 0, i |-> 0, data |-> <<>>, outcomes |-> <<>>]

\* No preprocess_data call yet.
NotCleaned == [status |-> "pending", df |-> <<>>]

\* The serving process, ingestion and sampling before anything ran.
OthersIdle ==
    /\ server = NotStarted
    /\ last = NoRequestYet
    /\ errors = 0
    /\ rows = <<>>
    /\ cleaned = NotCleaned
    /\ api = NoSampling

\* The partitions download_nyc_taxi_data is called for.
Months == {"2023-01", "2024-09", "2024-10"}

\* No datetime read.
NoClock == [year |-> 0, month |-> 0]

\* No download_nyc_taxi_data call yet.
NoDownload ==
    [month |-> "none", before |-> "absent", net |-> "none", requests |-> 0,
     raised |-> FALSE, ret |-> "none"]

\* An empty data directory, nothing called.
StorageIdle ==
    /\ clock = NoClock
    /\ latest = NoMonth
    /\ disk = [m \in Months |-> "absent"]
    /\ dl = NoDownload

\* The control loop before anything ran: no marker, no cycle, no run.
ControlIdle ==
    /\ marker = FALSE
    /\ mon = IdleMonitor
    /\ trig = NoTrigger
    /\ run = [r \in Runs |-> IdleRun]
    /\ checks = <<>>
    /\ burst = 0
    /\ unconsumed = 0

Init ==
    /\ ControlIdle
    /\ call = NoCall
    /\ result = Pending
    /\ OthersIdle
    /\ StorageIdle

\* The last two values of a log.
Last2(log) == IF Len(log) <= 2 THEN log ELSE SubSeq(log, Len(log) - 1, Len(log))

\* ------------------------------------------------------ monitor_drift
\* Reports the monitoring cycles of Spec are run against.
CycleReports == ReportsUpTo(1)

\* monitor_branch without the test of line 266.
monitor_branch_always(drift_detected) == "trigger_retraining"

\* Lines 266-272: the branch on drift_detected.
\* The branch of line 266 taken the other way round.
monitor_branch_inverted(drift_detected) ==
    IF drift_detected THEN "return False" ELSE "trigger_retraining"

monitor_branch(drift_detected) ==
    IF drift_detected THEN "trigger_retraining" ELSE "return False"

\* What the network does for one download: the file arrives, the request
\* fails before the file is opened (requests.get or raise_for_status
\* raises), or the stream breaks after open(filepath, 'wb').
NetOutcomes == {"ok", "request fails", "write fails"}

\* What a download_nyc_taxi_data call did: whether it raised, the requests
\* it made, the partition file afterwards ("absent", "partial",
\* "complete") and the value returned.
Downloaded(raised, requests, file) ==
    [raised |-> raised, requests |-> requests, file |-> file,
     ret |-> IF raised THEN "none" ELSE "filepath"]

\* download_nyc_taxi_data without the os.path.exists test.
download_nyc_taxi_data_refetch(file, net) ==
    IF net = "ok" THEN Downloaded(FALSE, 1, "complete")
    ELSE IF net = "request fails" THEN Downloaded(TRUE, 1, file)
    ELSE Downloaded(TRUE, 1, "partial")

\* download_nyc_taxi_data for a partition whose file is in state file: an
\* existing file is returned at once; else the request is made and the
\* chunks are written; a failure is logged and raised again, and what was
\* written stays.
download_nyc_taxi_data(file, net) ==
    IF file # "absent" THEN Downloaded(FALSE, 0, file)
    ELSE IF net = "ok" THEN Downloaded(FALSE, 1, "complete")
    ELSE IF net = "request fails" THEN Downloaded(TRUE, 1, "absent")
    ELSE Downloaded(TRUE, 1, "partial")

\* ingest_data with the exception of the download caught and an empty frame
\* returned.
ingest_data_swallows(fails) == [raised |-> FALSE]

\* ingest_data: the download, then preprocess_data; nothing is caught.
ingest_data(fails) ==
    [raised |-> download_nyc_taxi_data("absent",
                    IF fails THEN "request fails" ELSE "ok").raised]

\* load_reference_data: ingest_data(month, save_processed=False).
load_reference_data(fails) == ingest_data(fails)

\* Lines 247-258: the reference sample is ingested, then the current one
\* (ingested when current_month is given, else sampled from the serving
\* API). An exception of ingest_data leaves monitor_drift.  loads tells
\* which download fails, if any.
monitor_load(current_month, loads) ==
    /\ mon.pc = "idle"
    /\ loads = "current raises" => current_month = "given"
    /\ LET reference == load_reference_data(loads = "reference raises")
           current == IF current_month = "given"
                      THEN ingest_data(loads = "current raises")
                      ELSE [raised |-> FALSE]
       IN  mon' = IF ~reference.raised /\ ~current.raised
                  THEN [IdleMonitor EXCEPT !.pc = "check_drift",
                                           !.current_month = current_month,
                                           !.outcome = "running",
                                           !.loads = loads]
                  ELSE [IdleMonitor EXCEPT !.current_month = current_month,
                                           !.outcome = "raised",
                                           !.loads = loads]
    /\ trig' = NoTrigger
    /\ UNCHANGED <<marker, run, checks, call, result, burst, unconsumed, others, storage>>

\* Lines 262-272 up to the call of trigger_retraining.
monitor_check(report, threshold, nref, ncur) ==
    /\ mon.pc = "check_drift"
    /\ LET res == check_drift(report, threshold, nref, ncur)
       IN  mon' =
             IF res.status = "raised"
             THEN [mon EXCEPT !.pc = "idle", !.report = report,
                              !.check = "raised", !.outcome = "raised"]
             ELSE IF monitor_branch(res.drift_detected) = "trigger_retraining"
             THEN [mon EXCEPT !.pc = "trigger_retraining", !.report = report,
                              !.check = "returned",
                              !.drift_detected = res.drift_detected]
             ELSE [mon EXCEPT !.pc = "idle", !.report = report,
                              !.check = "returned",
                              !.drift_detected = res.drift_detected,
                              !.outcome = "returned", !.ret = FALSE]
    /\ UNCHANGED <<marker, trig, run, checks, call, result, burst, unconsumed, others, storage>>

\* Lines 268-269: trigger_retraining() and return True.
monitor_trigger(primary) ==
    /\ mon.pc = "trigger_retraining"
    /\ LET t == trigger_retraining(primary, marker)
       IN  /\ marker' = t.marker
           /\ trig' = [called |-> TRUE, primary |-> primary, before |-> marker,
                       after |-> t.marker, ret |-> t.ret, raised |-> t.raised]
           /\ mon' = IF t.raised
                     THEN [mon EXCEPT !.pc = "idle", !.outcome = "raised",
                                      !.triggers = @ + 1]
                     ELSE [mon EXCEPT !.pc = "idle", !.outcome = "returned",
                                      !.ret = TRUE, !.triggers = @ + 1]
    /\ checks' = <<>>
    /\ burst' = IF PrimaryAccepted(primary) THEN 0
                ELSE IF marker /\ burst < MaxBurst THEN burst + 1
                ELSE IF marker THEN burst
                ELSE 1
    /\ run' = [r \in Runs |->
                IF run[r].pc = "unlink" /\ ~PrimaryAccepted(primary)
                THEN [run[r] EXCEPT !.touched = TRUE, !.lost = FALSE]
                ELSE [run[r] EXCEPT !.lost = FALSE]]
    /\ unconsumed' = IF ~PrimaryAccepted(primary) /\ unconsumed < MaxCredit
                     THEN unconsumed + 1
                     ELSE unconsumed
    /\ UNCHANGED <<call, result, others, storage>>

\* --------------------------------------------------- month resolution
\* src/airflow/dags/retrain_dag.py, get_latest_month.  The string returned
\* is held as its sequence of characters.

\* The number of years after 2022 from which datetime.now() is drawn.
MaxYears == 4

\* The values of datetime.now() drawn: its year and its month.
Nows == [year : 2022..(2022 + MaxYears), month : 1..12]

DigitChars == <<"0", "1", "2", "3", "4", "5", "6", "7", "8", "9">>

\* str(n) of a natural number: its decimal digits, no padding.
RECURSIVE Str(_)
Str(n) ==
    IF n < 10 THEN <<DigitChars[n + 1]>>
    ELSE Append(Str(n \div 10), DigitChars[(n % 10) + 1])

\* The format spec :02d on a natural number: zeros on the left up to a
\* width of two.
Format02d(n) == IF n < 10 THEN <<"0">> \o Str(n) ELSE Str(n)

\* The body of get_latest_month with {now.month - 1} in place of
\* {now.month - 1:02d}.
LatestMonth_unpadded(now) ==
    IF now.month = 1
    THEN Str(now.year - 1) \o <<"-", "1", "2">>
    ELSE Str(now.year) \o <<"-">> \o Str(now.month - 1)

\* The body of get_latest_month, lines 64-67: f"{now.year - 1}-12" in
\* January, else f"{now.year}-{now.month - 1:02d}".
LatestMonth(now) ==
    IF now.month = 1
    THEN Str(now.year - 1) \o <<"-", "1", "2">>
    ELSE Str(now.year) \o <<"-">> \o Format02d(now.month - 1)

\* ------------------------------------------------- the orchestration run
\* A task whose callable raised: it is tried again while tries are left
\* (default_args['retries']), else the task and the run fail.  History:
\* lost is set when the run that fails had its check return true and
\* trigger_retraining was not called since; it is kept over the runs that
\* follow until trigger_retraining is called.
TaskFailed(rec, task) ==
    IF rec.try_number <= retries
    THEN [rec EXCEPT !.pc = task, !.try_number = @ + 1]
    ELSE [rec EXCEPT !.pc = "failed",
                     !.lost = @ \/ (rec.ret = "true" /\ checks # <<>>)]

\* A PythonOperator whose callable returned: the task succeeds whatever
\* the value returned (it is pushed as the task's XCom), and the next task
\* of the chain is scheduled.
TaskSucceeded(rec, task) ==
    [rec EXCEPT !.pc = NextTask(task), !.try_number = 1,
                !.done = Append(@, task)]

\* The scheduler (@daily), a manual trigger or a dagRuns request starts a run.
dag_run_start(r) ==
    /\ run[r].pc \in {"idle", "success", "failed"}
    /\ run' = [run EXCEPT ![r] = [IdleRun EXCEPT !.pc = "check_retrain_trigger",
                                                 !.lost = run[r].lost]]
    /\ UNCHANGED <<marker, mon, trig, checks, call, result, burst, unconsumed, others, storage>>

\* check_retrain_trigger, line 49: trigger_file.exists(); without the
\* file the callable returns False (lines 53-55).  History kept for the
\* calls of concurrent runs: raced is set on both calls when one sees the
\* file while the other is between its exists() and its unlink(); touched
\* is set on a call when trigger_retraining touches the file at that point.
check_exists(r) ==
    /\ run[r].pc = "check_retrain_trigger"
    /\ LET racing == exists(marker) /\ \E o \in Runs \ {r} : run[o].pc = "unlink"
           rec == [run[r] EXCEPT !.ran = @ \cup {"check_retrain_trigger"},
                                 !.seen = exists(marker),
                                 !.raced = racing, !.touched = FALSE]
       IN  IF exists(marker)
           THEN /\ run' = [o \in Runs |->
                            IF o = r THEN [rec EXCEPT !.pc = "unlink"]
                            ELSE IF racing /\ run[o].pc = "unlink"
                            THEN [run[o] EXCEPT !.raced = TRUE]
                            ELSE run[o]]
                /\ checks' = checks
           ELSE /\ run' = [run EXCEPT ![r] =
                            TaskSucceeded([rec EXCEPT !.ret = "false",
                                                      !.after = marker],
                                          "check_retrain_trigger")]
                /\ checks' = Last2(Append(checks, FALSE))
    /\ UNCHANGED <<marker, mon, trig, call, result, burst, unconsumed, others, storage>>

\* check_retrain_trigger, lines 51-52: trigger_file.unlink(); return True.
check_unlink(r) ==
    /\ run[r].pc = "unlink"
    /\ LET u == unlink(marker)
       IN  IF u.raised
           THEN /\ run' = [run EXCEPT ![r] =
                            TaskFailed([@ EXCEPT !.ret = "raised"],
                                       "check_retrain_trigger")]
                /\ UNCHANGED <<marker, checks, unconsumed>>
           ELSE /\ marker' = u.marker
                /\ unconsumed' = unconsumed - 1
                /\ run' = [run EXCEPT ![r] =
                            TaskSucceeded([@ EXCEPT !.ret = "true",
                                                    !.after = u.marker],
                                          "check_retrain_trigger")]
                /\ checks' = Last2(Append(checks, TRUE))
    /\ UNCHANGED <<mon, trig, call, result, burst, others, storage>>

\* The values of datetime.now() drawn in a run: a January and another month.
RunNows == {[year |-> 2024, month |-> 1], [year |-> 2024, month |-> 11]}

\* context['ti'].xcom_pull(task_ids=...): the value the named task of the
\* same run returned.
xcom_pull(rec, task_id) == rec.xcom[task_id]

\* get_latest_month never raises; the month it returns is its XCom.
get_latest_month(r, now) ==
    /\ run[r].pc = "get_latest_month"
    /\ run' = [run EXCEPT ![r] =
                TaskSucceeded([@ EXCEPT !.ran = @ \cup {"get_latest_month"},
                                        !.xcom.get_latest_month = LatestMonth(now)],
                              "get_latest_month")]
    /\ UNCHANGED <<marker, mon, trig, checks, call, result, burst, unconsumed, others, storage>>

\* ingest_new_data: the month is pulled from get_latest_month;
\* ingest_data(month, save_processed=True) returns, and the task returns the
\* month, or raises.
ingest_new_data(r, ok) ==
    /\ run[r].pc = "ingest_new_data"
    /\ LET month == xcom_pull(run[r], "get_latest_month")
           rec == [run[r] EXCEPT !.ran = @ \cup {"ingest_new_data"},
                                 !.ingested = month]
       IN  run' = [run EXCEPT ![r] =
                    IF ok
                    THEN TaskSucceeded([rec EXCEPT !.xcom.ingest_new_data = month],
                                       "ingest_new_data")
                    ELSE TaskFailed(rec, "ingest_new_data")]
    /\ UNCHANGED <<marker, mon, trig, checks, call, result, burst, unconsumed, others, storage>>

\* retrain_model: the month is pulled from ingest_new_data;
\* train_main(month) returns or raises.
retrain_model(r, ok) ==
    /\ run[r].pc = "retrain_model"
    /\ LET month == xcom_pull(run[r], "ingest_new_data")
           rec == [run[r] EXCEPT !.ran = @ \cup {"retrain_model"},
                                 !.trained = month]
       IN  run' = [run EXCEPT ![r] = IF ok THEN TaskSucceeded(rec, "retrain_model")
                                      ELSE TaskFailed(rec, "retrain_model")]
    /\ UNCHANGED <<marker, mon, trig, checks, call, result, burst, unconsumed, others, storage>>

\* update_serving_model only logs and returns True.
update_serving_model(r) ==
    /\ run[r].pc = "update_serving_model"
    /\ run' = [run EXCEPT ![r] =
                TaskSucceeded([@ EXCEPT !.ran = @ \cup {"update_serving_model"}],
                              "update_serving_model")]
    /\ UNCHANGED <<marker, mon, trig, checks, call, result, burst, unconsumed, others, storage>>

\* ------------------------------------------------------ specifications
\* Spec: one monitoring process and single-flight orchestration runs.
Next ==
    \/ \E current_month \in {"none", "given"},
          loads \in {"ok", "reference raises", "current raises"} :
            monitor_load(current_month, loads)
    \/ \E report \in CycleReports, threshold \in Thresholds,
          nref \in 0..MaxSamples, ncur \in 0..MaxSamples :
            monitor_check(report, threshold, nref, ncur)
    \/ \E primary \in PrimaryOutcomes : monitor_trigger(primary)
    \/ \E r \in SingleFlight : dag_run_start(r)
    \/ \E r \in SingleFlight : check_exists(r)
    \/ \E r \in SingleFlight : check_unlink(r)
    \/ \E r \in SingleFlight, now \in RunNows : get_latest_month(r, now)
    \/ \E r \in SingleFlight, ok \in BOOLEAN : ingest_new_data(r, ok)
    \/ \E r \in SingleFlight, ok \in BOOLEAN : retrain_model(r, ok)
    \/ \E r \in SingleFlight : update_serving_model(r)

Spec == Init /\ [][Next]_vars

\* SpecRace: two orchestration runs at once (the DAG sets no
\* max_active_runs), with monitoring cycles that detect drift and fall back
\* to the file.
DriftReport == Report("ok", "dict", <<DatasetMetric("value", PyBool(TRUE))>>)

NextRace ==
    \/ monitor_load("none", "ok")
    \/ monitor_check(DriftReport, 5, 1, 1)
    \/ monitor_trigger(Raises)
    \/ \E r \in Runs : dag_run_start(r)
    \/ \E r \in Runs : check_exists(r)
    \/ \E r \in Runs : check_unlink(r)
    \/ \E r \in Runs, now \in RunNows : get_latest_month(r, now)
    \/ \E r \in Runs : ingest_new_data(r, TRUE)
    \/ \E r \in Runs : retrain_model(r, TRUE)
    \/ \E r \in Runs : update_serving_model(r)

SpecRace == Init /\ [][NextRace]_vars

\* SpecLive: monitoring cycles that detect drift, the run-creation request
\* failing or answering 200, and single-flight runs whose ingestion and
\* training succeed.  The scheduler is fair to the runs: a run that can
\* start does start, and a task that is ready is executed.  Nothing makes
\* a monitoring cycle happen.
NextLive ==
    \/ monitor_load("none", "ok")
    \/ monitor_check(DriftReport, 5, 1, 1)
    \/ \E primary \in {Raises, Answers(200), Answers(201)} : monitor_trigger(primary)
    \/ \E r \in SingleFlight : dag_run_start(r)
    \/ \E r \in SingleFlight : check_exists(r)
    \/ \E r \in SingleFlight : check_unlink(r)
    \/ \E r \in SingleFlight, now \in RunNows : get_latest_month(r, now)
    \/ \E r \in SingleFlight : ingest_new_data(r, TRUE)
    \/ \E r \in SingleFlight : retrain_model(r, TRUE)
    \/ \E r \in SingleFlight : update_serving_model(r)

FairRuns ==
    \A r \in SingleFlight :
        /\ WF_vars(dag_run_start(r))
        /\ WF_vars(check_exists(r))
        /\ WF_vars(check_unlink(r))
        /\ WF_vars(\E now \in RunNows : get_latest_month(r, now))
        /\ WF_vars(ingest_new_data(r, TRUE))
        /\ WF_vars(retrain_model(r, TRUE))
        /\ WF_vars(update_serving_model(r))

SpecLive == Init /\ [][NextLive]_vars /\ FairRuns

\* SpecDrift: check_drift as a function of its arguments and of what the
\* collaborator answers.
Calls ==
    [report : Reports, threshold : Thresholds,
     reference_samples : 0..MaxSamples, current_samples : 0..MaxSamples]

InitDrift ==
    /\ ControlIdle
    /\ call \in Calls
    /\ result = Pending
    /\ OthersIdle
    /\ StorageIdle

evaluate ==
    /\ result.status = "pending"
    /\ result' = check_drift(call.report, call.threshold,
                             call.reference_samples, call.current_samples)
    /\ UNCHANGED <<marker, mon, trig, run, checks, burst, unconsumed, call, others, storage>>

NextDrift == evaluate

SpecDrift == InitDrift /\ [][NextDrift]_vars

\* ------------------------------------------------------------ serving
\* src/src/serve.py.  trip_distance is held in tenths of a mile (1 = 0.1).

\* Bounds of the serving specification: the longest batch drawn and the
\* number of 500 responses counted.
MaxBatch == 2
MaxErrors == 2

\* A request body that parsed into the seven fields of TripRequest.
Trip(d, p, h, w, m, pu, do) ==
    [trip_distance |-> d, passenger_count |-> p, hour |-> h, day_of_week |-> w,
     month |-> m, pickup_location_id |-> pu, dropoff_location_id |-> do]

\* Every field at the least value its Field admits (0.1 for the distance),
\* and every field at the greatest (the distance and the location ids have
\* no upper limit; 265 is the last taxi zone).
MinimumTrip == Trip(1, 1, 0, 0, 1, 1, 1)
MaximumTrip == Trip(1000, 6, 23, 6, 12, 265, 265)

\* The bodies drawn: the two above and, for every field, a value just past
\* each of its limits.
Trips ==
    {MinimumTrip, MaximumTrip}
    \cup {[MinimumTrip EXCEPT !.trip_distance = d] : d \in {0, -1}}
    \cup {[MinimumTrip EXCEPT !.passenger_count = p] : p \in {0, 7}}
    \cup {[MinimumTrip EXCEPT !.hour = h] : h \in {-1, 24}}
    \cup {[MinimumTrip EXCEPT !.day_of_week = w] : w \in {-1, 7}}
    \cup {[MinimumTrip EXCEPT !.month = m] : m \in {0, 13}}
    \cup {[MinimumTrip EXCEPT !.pickup_location_id = 0],
          [MinimumTrip EXCEPT !.dropoff_location_id = 0]}

\* The bodies a batch is drawn from.
BatchTrips ==
    {MinimumTrip, MaximumTrip,
     [MinimumTrip EXCEPT !.passenger_count = 7],
     [MinimumTrip EXCEPT !.trip_distance = 0]}

\* TripRequest with passenger_count admitted up to 7.
TripRequestValid_le7(trip) ==
    /\ trip.trip_distance > 0
    /\ trip.passenger_count >= 1 /\ trip.passenger_count <= 7
    /\ trip.hour >= 0 /\ trip.hour <= 23
    /\ trip.day_of_week >= 0 /\ trip.day_of_week <= 6
    /\ trip.month >= 1 /\ trip.month <= 12
    /\ trip.pickup_location_id >= 1
    /\ trip.dropoff_location_id >= 1

\* TripRequest with passenger_count gt=1 instead of ge=1.
TripRequestValid_gt1(trip) ==
    /\ trip.trip_distance > 0
    /\ trip.passenger_count > 1 /\ trip.passenger_count <= 6
    /\ trip.hour >= 0 /\ trip.hour <= 23
    /\ trip.day_of_week >= 0 /\ trip.day_of_week <= 6
    /\ trip.month >= 1 /\ trip.month <= 12
    /\ trip.pickup_location_id >= 1
    /\ trip.dropoff_location_id >= 1

\* The Field constraints of TripRequest: gt=0; ge=1, le=6; ge=0, le=23;
\* ge=0, le=6; ge=1, le=12; ge=1; ge=1.
TripRequestValid(trip) ==
    /\ trip.trip_distance > 0
    /\ trip.passenger_count >= 1 /\ trip.passenger_count <= 6
    /\ trip.hour >= 0 /\ trip.hour <= 23
    /\ trip.day_of_week >= 0 /\ trip.day_of_week <= 6
    /\ trip.month >= 1 /\ trip.month <= 12
    /\ trip.pickup_location_id >= 1
    /\ trip.dropoff_location_id >= 1

\* A response: its status, how often model.predict was invoked for the
\* request, how many durations the body carries and whether it carries the
\* model version.
Response(code, calls, n, version) ==
    [status_code |-> code, predict_calls |-> calls, durations |-> n,
     model_version |-> version]

\* The framework's answer to a body that fails validation: the handler is
\* not entered.
RequestValidationError == Response(422, 0, 0, FALSE)

\* What the body of a handler meets: nothing raises, building the feature
\* frame raises, or model.predict raises.
HandlerOutcomes == {"ok", "frame raises", "predict raises"}

\* predict without its except clause turning the exception into a 500: the
\* request is answered 200 with no duration.
predict_swallows(trip, outcome) ==
    IF outcome = "frame raises" THEN Response(200, 0, 0, FALSE)
    ELSE IF outcome = "predict raises" THEN Response(200, 1, 0, FALSE)
    ELSE Response(200, 1, 1, TRUE)

\* The handler of /predict on a validated trip: one frame of one row, one
\* model.predict, a TripResponse; any exception becomes HTTPException(500).
predict(trip, outcome) ==
    IF outcome = "frame raises" THEN Response(500, 0, 0, FALSE)
    ELSE IF outcome = "predict raises" THEN Response(500, 1, 0, FALSE)
    ELSE Response(200, 1, 1, TRUE)

\* The handler of /predict_batch on validated trips: one frame of all rows,
\* one model.predict, one item per trip, each with its duration and the
\* model version; any exception becomes HTTPException(500).
predict_batch(trips, outcome) ==
    IF outcome = "frame raises" THEN Response(500, 0, 0, FALSE)
    ELSE IF outcome = "predict raises" THEN Response(500, 1, 0, FALSE)
    ELSE Response(200, 1, Len(trips), Len(trips) > 0)

\* What load_model meets: the registry load succeeds or raises; model.joblib
\* is absent, loads, or is there and fails to load; features.joblib exists
\* or not.
RegistryOutcomes == {"ok", "raises"}
LocalModels == {"absent", "loadable", "unreadable"}

\* What load_model gives: whether it raised, where the model came from,
\* where the feature list came from, and the places tried in order.
Loaded(source, feats, tried) ==
    [raised |-> FALSE, source |-> source, features |-> feats, tried |-> tried]
LoadFailed(tried) ==
    [raised |-> TRUE, source |-> "none", features |-> "none", tried |-> tried]

\* load_model without the os.path.exists test of model.joblib, a missing
\* file giving a model of None.
load_model_unchecked(registry, local, features_file) ==
    IF registry = "ok" THEN Loaded("mlflow", "config", <<"mlflow">>)
    ELSE IF local = "unreadable" THEN LoadFailed(<<"mlflow", "local">>)
    ELSE Loaded("local", IF features_file THEN "features.joblib" ELSE "config",
                <<"mlflow", "local">>)

\* load_model: the registry inside the try; in the except clause the local
\* file, FileNotFoundError when it is absent, whatever joblib.load raises
\* when it does not load.
load_model(registry, local, features_file) ==
    IF registry = "ok" THEN Loaded("mlflow", "config", <<"mlflow">>)
    ELSE IF local = "absent" THEN LoadFailed(<<"mlflow", "local">>)
    ELSE IF local = "unreadable" THEN LoadFailed(<<"mlflow", "local">>)
    ELSE Loaded("local", IF features_file THEN "features.joblib" ELSE "config",
                <<"mlflow", "local">>)

\* The import of the serving module: load_model at module level.  When it
\* raises the import fails and no route is served.
startup(registry, local, features_file) ==
    /\ server.status = "starting"
    /\ LET l == load_model(registry, local, features_file)
       IN  server' = [status |-> IF l.raised THEN "crashed" ELSE "serving",
                      source |-> l.source, features |-> l.features,
                      tried |-> l.tried, registry |-> registry, local |-> local]
    /\ UNCHANGED <<last, errors, rows, cleaned, api>>
    /\ UNCHANGED <<marker, mon, trig, run, checks, burst, unconsumed, call, result, storage>>

\* A request and its response, as kept in last.
Exchange(endpoint, trips, outcome, resp) ==
    [endpoint |-> endpoint, trips |-> trips, outcome |-> outcome,
     status_code |-> resp.status_code, predict_calls |-> resp.predict_calls,
     durations |-> resp.durations, model_version |-> resp.model_version]

\* The count of 500 responses after one more response.
CountError(resp) ==
    IF resp.status_code = 500 /\ errors < MaxErrors THEN errors + 1 ELSE errors

\* POST /predict: validation, then the handler.
request_predict(trip, outcome) ==
    /\ server.status = "serving"
    /\ LET resp == IF TripRequestValid(trip) THEN predict(trip, outcome)
                   ELSE RequestValidationError
       IN  /\ last' = Exchange("/predict", <<trip>>, outcome, resp)
           /\ errors' = CountError(resp)
    /\ UNCHANGED <<server, rows, cleaned, api>>
    /\ UNCHANGED <<marker, mon, trig, run, checks, burst, unconsumed, call, result, storage>>

\* POST /predict_batch: validation of every element, then the handler.
request_predict_batch(trips, outcome) ==
    /\ server.status = "serving"
    /\ LET resp == IF \A i \in 1..Len(trips) : TripRequestValid(trips[i])
                   THEN predict_batch(trips, outcome)
                   ELSE RequestValidationError
       IN  /\ last' = Exchange("/predict_batch", trips, outcome, resp)
           /\ errors' = CountError(resp)
    /\ UNCHANGED <<server, rows, cleaned, api>>
    /\ UNCHANGED <<marker, mon, trig, run, checks, burst, unconsumed, call, result, storage>>

\* SpecServe: the serving process from its import on.
NextServe ==
    \/ \E registry \in RegistryOutcomes, local \in LocalModels,
          features_file \in BOOLEAN : startup(registry, local, features_file)
    \/ \E trip \in Trips, outcome \in HandlerOutcomes :
            request_predict(trip, outcome)
    \/ \E trips \in SeqsUpTo(BatchTrips, MaxBatch), outcome \in HandlerOutcomes :
            request_predict_batch(trips, outcome)

SpecServe == Init /\ [][NextServe]_vars

\* ---------------------------------------------------------- ingestion
\* src/src/data_ingestion.py, preprocess_data.  A cell of the frame is a
\* number or missing (NaN, NaT); a comparison with a missing cell is false,
\* as in pandas.  trip_distance is held in tenths of a mile (1000 = 100.0)
\* and the difference dropoff - pickup in seconds (10800 = 180 minutes);
\* passenger_count and the location ids are whole numbers.

\* The longest raw frame drawn.
MaxRows == 2

Num(k) == [nan |-> FALSE, v |-> k]
NaN == [nan |-> TRUE, v |-> 0]
Gt(a, k) == ~a.nan /\ a.v > k
Lt(a, k) == ~a.nan /\ a.v < k
Le(a, k) == ~a.nan /\ a.v <= k
notna(a) == ~a.nan

\* A raw record: the columns preprocess_data reads.  elapsed is
\* dropoff_datetime - pickup_datetime.
RawRow(d, p, e, pu, do) ==
    [trip_distance |-> d, passenger_count |-> p, elapsed |-> e,
     PULocationID |-> pu, DOLocationID |-> do]

\* Two records that pass every filter, at the least and at the greatest
\* values that do.
LeastRow == RawRow(Num(1), Num(1), Num(1), Num(1), Num(1))
GreatestRow == RawRow(Num(999), Num(6), Num(10800), Num(265), Num(265))

\* The records drawn: each of the two with one cell replaced by a value at
\* or past a limit, or by a missing value.
RawRows ==
    UNION {
        {base}
        \cup {[base EXCEPT !.trip_distance = x] : x \in {Num(-1), Num(0), Num(1000), Num(1001), NaN}}
        \cup {[base EXCEPT !.passenger_count = x] : x \in {Num(0), Num(7), NaN}}
        \cup {[base EXCEPT !.elapsed = x] : x \in {Num(-60), Num(0), Num(10801), NaN}}
        \cup {[base EXCEPT !.PULocationID = NaN], [base EXCEPT !.DOLocationID = NaN]}
        : base \in {LeastRow, GreatestRow}}

\* The first filter with trip_distance <= 100 in place of < 100.
FirstFilter_le100(row) ==
    /\ Gt(row.trip_distance, 0)
    /\ Le(row.trip_distance, 1000)
    /\ Gt(row.passenger_count, 0)
    /\ Le(row.passenger_count, 6)
    /\ notna(row.PULocationID)
    /\ notna(row.DOLocationID)

\* The first filter: distance > 0 and < 100, passenger_count > 0 and <= 6,
\* both location ids present.
FirstFilter(row) ==
    /\ Gt(row.trip_distance, 0)
    /\ Lt(row.trip_distance, 1000)
    /\ Gt(row.passenger_count, 0)
    /\ Le(row.passenger_count, 6)
    /\ notna(row.PULocationID)
    /\ notna(row.DOLocationID)

\* trip_duration_minutes = elapsed.total_seconds() / 60, kept here in
\* seconds; missing when a datetime is.
trip_duration(row) == row.elapsed

\* The second filter: duration > 0 and <= 180 minutes.
DurationFilter(row) ==
    /\ Gt(trip_duration(row), 0)
    /\ Le(trip_duration(row), 180 * 60)

\* A record of the returned frame: its index label (the position of the raw
\* record it was made from) and the selected columns.
CleanRow(i, row) ==
    [index |-> i,
     trip_distance |-> row.trip_distance,
     passenger_count |-> row.passenger_count,
     trip_duration |-> trip_duration(row),
     pickup_location_id |-> row.PULocationID,
     dropoff_location_id |-> row.DOLocationID]

\* The final dropna: a record with a missing selected column goes.
Complete(c) ==
    /\ notna(c.trip_distance) /\ notna(c.passenger_count)
    /\ notna(c.trip_duration)
    /\ notna(c.pickup_location_id) /\ notna(c.dropoff_location_id)

\* preprocess_data: the two filters in order, the column selection, dropna.
\* Records keep their order.
preprocess_data(raw) ==
    LET labelled == [i \in 1..Len(raw) |-> [index |-> i, row |-> raw[i]]]
        first == SelectSeq(labelled, LAMBDA x : FirstFilter(x.row))
        second == SelectSeq(first, LAMBDA x : DurationFilter(x.row))
        selected == [j \in 1..Len(second) |-> CleanRow(second[j].index, second[j].row)]
    IN  SelectSeq(selected, Complete)

\* SpecIngest: preprocess_data as a function of the frame it reads.
InitIngest ==
    /\ ControlIdle
    /\ call = NoCall
    /\ result = Pending
    /\ server = NotStarted
    /\ last = NoRequestYet
    /\ errors = 0
    /\ rows \in SeqsUpTo(RawRows, MaxRows)
    /\ cleaned = NotCleaned
    /\ api = NoSampling
    /\ StorageIdle

preprocess ==
    /\ cleaned.status = "pending"
    /\ cleaned' = [status |-> "done", df |-> preprocess_data(rows)]
    /\ UNCHANGED <<server, last, errors, rows, api>>
    /\ UNCHANGED <<marker, mon, trig, run, checks, burst, unconsumed, call, result, storage>>

NextIngest == preprocess

SpecIngest == InitIngest /\ [][NextIngest]_vars

\* ----------------------------------------------------------- sampling
\* src/src/drift_detector.py, get_predictions_from_api: the sample taken
\* from the serving API when monitor_drift is given no current month.

\* The largest n_samples drawn.
MaxApiSamples == 3

\* What one POST /predict meets: a 200 whose body holds the prediction, a
\* 200 whose body does not (response.json() or the key lookup raises), a
\* status other than 200, or requests.post raising.
SampleOutcomes == {"200", "200 bad body", "non-200", "raises"}

\* A record of data: the iteration that made it and where its
\* predicted_duration came from.
Sample(k, from) == [sample |-> k, predicted_duration |-> from]

\* One iteration of the loop: the append under status 200, nothing under
\* another status, the mock prediction and the append in the except clause.
sample_step(data, k, outcome) ==
    IF outcome = "200" THEN Append(data, Sample(k, "api"))
    ELSE IF outcome = "non-200" THEN data
    ELSE Append(data, Sample(k, "mock"))

\* The call: data = [].
sampling_call(n_samples) ==
    /\ api.pc = "idle"
    /\ api' = [pc |-> "loop", n_samples |-> n_samples, i |-> 0,
               data |-> <<>>, outcomes |-> <<>>]
    /\ UNCHANGED <<server, last, errors, rows, cleaned>>
    /\ UNCHANGED <<marker, mon, trig, run, checks, burst, unconsumed, call, result, storage>>

\* for _ in range(n_samples): one iteration.
sampling_iterate(outcome) ==
    /\ api.pc = "loop"
    /\ api.i < api.n_samples
    /\ api' = [api EXCEPT !.i = @ + 1,
                          !.data = sample_step(@, api.i + 1, outcome),
                          !.outcomes = Append(@, outcome)]
    /\ UNCHANGED <<server, last, errors, rows, cleaned>>
    /\ UNCHANGED <<marker, mon, trig, run, checks, burst, unconsumed, call, result, storage>>

\* return pd.DataFrame(data)
sampling_return ==
    /\ api.pc = "loop"
    /\ api.i = api.n_samples
    /\ api' = [api EXCEPT !.pc = "returned"]
    /\ UNCHANGED <<server, last, errors, rows, cleaned>>
    /\ UNCHANGED <<marker, mon, trig, run, checks, burst, unconsumed, call, result, storage>>

\* SpecApi: one get_predictions_from_api call.
NextApi ==
    \/ \E n_samples \in 0..MaxApiSamples : sampling_call(n_samples)
    \/ \E outcome \in SampleOutcomes : sampling_iterate(outcome)
    \/ sampling_return

SpecApi == Init /\ [][NextApi]_vars

\* SpecMonth: get_latest_month as a function of the datetime it reads.
InitMonth ==
    /\ ControlIdle
    /\ call = NoCall
    /\ result = Pending
    /\ OthersIdle
    /\ clock \in Nows
    /\ latest = NoMonth
    /\ disk = [m \in Months |-> "absent"]
    /\ dl = NoDownload

resolve_month ==
    /\ latest = NoMonth
    /\ latest' = LatestMonth(clock)
    /\ UNCHANGED <<clock, disk, dl>>
    /\ UNCHANGED <<marker, mon, trig, run, checks, burst, unconsumed, call, result, others>>

NextMonth == resolve_month

SpecMonth == InitMonth /\ [][NextMonth]_vars

\* ----------------------------------------------------------- download
\* src/src/data_ingestion.py, download_nyc_taxi_data on the data directory.
download(month, net) ==
    /\ LET d == download_nyc_taxi_data(disk[month], net)
       IN  /\ disk' = [disk EXCEPT ![month] = d.file]
           /\ dl' = [month |-> month, before |-> disk[month], net |-> net,
                     requests |-> d.requests, raised |-> d.raised, ret |-> d.ret]
    /\ UNCHANGED <<clock, latest>>
    /\ UNCHANGED <<marker, mon, trig, run, checks, burst, unconsumed, call, result, others>>

\* SpecDownload: calls of download_nyc_taxi_data, one after the other.
NextDownload == \E month \in Months, net \in NetOutcomes : download(month, net)

SpecDownload == Init /\ [][NextDownload]_vars

\* ------------------------------------------------------------ claims
\* The entry of a report that carries the collaborator's DatasetDriftMetric
\* result: the first "dataset" entry, all entries before it being dicts of
\* other metrics. 0 when the report has none.
DatasetIndex(report) ==
    LET found == {i \in 1..Len(report.metrics) :
                    /\ report.metrics[i].kind = "dataset"
                    /\ \A j \in 1..(i - 1) : report.metrics[j].kind = "other"}
    IN  IF report.run = "ok" /\ report.shape = "dict" /\ found # {}
        THEN CHOOSE i \in found : TRUE
        ELSE 0

\* Python's ==, between a value and a number given in tenths (a bool
\* compares as 1 or 0).
PyEqualsNumber(v, t) == IsIntOrFloat(v) /\ NumberOf(v) = t

\* The collaborator reports the value v under dataset_drift.
ReportsValue(report, v) ==
    /\ DatasetIndex(report) # 0
    /\ report.metrics[DatasetIndex(report)] = DatasetMetric("value", v)

\* C1: check_retrain_trigger returns true only for a marker it saw and
\* deleted and false only when it saw none, leaving it absent either way;
\* a call that saw the marker returns true; and of two successive calls
\* with no trigger_retraining call in between, the one after a call that
\* returned true returns false.
C1_ConsumeOnce ==
    /\ \A r \in Runs :
        /\ run[r].ret = "true" => run[r].seen /\ ~run[r].after
        /\ run[r].ret = "false" => ~run[r].seen /\ ~run[r].after
        /\ run[r].seen /\ run[r].pc # "unlink" => run[r].ret = "true"
    /\ Len(checks) = 2 /\ checks[1] => ~checks[2]

\* Two successive calls, no trigger_retraining in between: true, then false.
C1_Witness == checks = <<TRUE, FALSE>> /\ ~marker

\* C2: in a run whose check_retrain_trigger returned false, none of the
\* downstream tasks executes.
C2_DownstreamGated ==
    \A r \in Runs : run[r].ret = "false" => run[r].ran \cap Downstream = {}

\* C3: a trigger_retraining call whose run-creation request raised or
\* answered a status other than 200/201 returns true, and the marker
\* exists when it returns.
C3_FallbackOnFailure ==
    trig.called /\ ~PrimaryAccepted(trig.primary)
        => ~trig.raised /\ trig.ret /\ trig.after

\* The request raised, the marker was absent, and the call created it.
C3_Witness ==
    trig.called /\ trig.primary.raised /\ ~trig.before /\ trig.after /\ trig.ret

\* C4, as claimed: the marker exists after every trigger_retraining call,
\* also one whose request answered 200 or 201.
C4_AlwaysTouched == trig.called => trig.after

\* C4, amended: every call returns true; the marker exists after a call
\* whose request failed, and is as it was before a call whose request
\* answered 200 or 201.
C4_TouchedOnFallbackOnly ==
    trig.called =>
        /\ trig.ret
        /\ trig.after = (IF PrimaryAccepted(trig.primary) THEN trig.before ELSE TRUE)

\* The request answered 201 with no marker, and the call left none.
C4_Witness ==
    /\ trig.called /\ trig.primary = Answers(201)
    /\ ~trig.before /\ ~trig.after /\ ~marker

\* C5: a monitor_drift cycle that returns, returns true exactly when
\* check_drift's verdict is detected; it has called trigger_retraining once
\* in that case and not at all otherwise, and no cycle calls it without a
\* detected verdict. A cycle with no current month whose collaborator
\* reported dataset_drift = true ends returning true, with the run-creation
\* request attempted and the marker created unless the request was accepted.
C5_TriggersIffDetected ==
    /\ mon.outcome = "returned" =>
        /\ mon.check = "returned"
        /\ mon.ret = mon.drift_detected
        /\ mon.triggers = (IF mon.drift_detected THEN 1 ELSE 0)
        /\ trig.called = mon.drift_detected
    /\ mon.triggers > 0 \/ trig.called \/ mon.pc = "trigger_retraining"
        => mon.check = "returned" /\ mon.drift_detected
    /\ mon.triggers <= 1
    /\ mon.current_month = "none" /\ ReportsValue(mon.report, PyBool(TRUE)) /\ mon.pc = "idle"
        => /\ mon.outcome = "returned" /\ mon.ret
           /\ trig.called /\ trig.primary \in PrimaryOutcomes
           /\ trig.after \/ PrimaryAccepted(trig.primary)

\* No current month, dataset_drift = true: the cycle returned true and
\* created the marker.
C5_Witness ==
    /\ mon.current_month = "none" /\ ReportsValue(mon.report, PyBool(TRUE))
    /\ mon.outcome = "returned" /\ mon.ret /\ mon.triggers = 1
    /\ ~trig.before /\ marker

\* C6: for a numeric score s under dataset_drift and a threshold t,
\* check_drift returns detected = (s > t), in the tuple and in the verdict,
\* and the verdict holds s as its score and t as its threshold.
C6_StrictThreshold ==
    \A v \in DriftValues :
        v.ty \in {"int", "float"} /\ ReportsValue(call.report, v) /\ result.status # "pending"
            => /\ result.status = "returned"
               /\ result.drift_detected = (v.n > call.threshold)
               /\ result.drift_info.drift_detected = (v.n > call.threshold)
               /\ PyEqualsNumber(result.drift_info.drift_score, v.n)
               /\ result.drift_info.threshold = call.threshold

\* The boundary: a score of 0.5 against the threshold 0.5 is not detected.
C6_Witness ==
    /\ ReportsValue(call.report, PyFloat(5)) /\ call.threshold = 5
    /\ result.status = "returned" /\ ~result.drift_detected

\* C7: a boolean under dataset_drift is the verdict, whatever the threshold.
C7_BooleanUsedDirectly ==
    \A b \in BOOLEAN :
        ReportsValue(call.report, PyBool(b)) /\ result.status # "pending"
            => /\ result.status = "returned"
               /\ result.drift_detected = b
               /\ result.drift_info.drift_detected = b

\* dataset_drift = True against the threshold 1.0 is detected.
C7_Witness ==
    /\ ReportsValue(call.report, PyBool(TRUE)) /\ call.threshold = 10
    /\ result.status = "returned" /\ result.drift_detected

\* A report that Report.run produced and that is malformed: no
\* DatasetDriftMetric entry can be read from it, or that entry has no
\* result dict, no dataset_drift key, or a dataset_drift value that is
\* neither a boolean nor a number.
Malformed(report) ==
    /\ report.run = "ok"
    /\ \/ DatasetIndex(report) = 0
       \/ /\ DatasetIndex(report) # 0
          /\ LET e == report.metrics[DatasetIndex(report)]
             IN  e.result # "value" \/ e.value.ty \in {"str", "NoneType"}

\* C8: for a malformed report check_drift returns a verdict with
\* detected = false and a score equal to 0.0.
C8_MalformedGivesZero ==
    Malformed(call.report) /\ result.status # "pending"
        => /\ result.status = "returned"
           /\ ~result.drift_detected
           /\ ~result.drift_info.drift_detected
           /\ PyEqualsNumber(result.drift_info.drift_score, 0)

\* C9: when the collaborator raises, check_drift does not raise, and the
\* cycle completes returning false without a trigger_retraining call.
C9_NeverCrashes ==
    mon.report.run = "raise" =>
        /\ mon.check # "raised"
        /\ mon.pc = "idle" =>
            mon.outcome = "returned" /\ ~mon.ret /\ mon.triggers = 0

\* A trip with a field outside the bound stated for it: distance <= 0,
\* passengers outside 1..6, hour outside 0..23, day-of-week outside 0..6,
\* month outside 1..12, a location id < 1.
OutOfBound(trip) ==
    \/ trip.trip_distance <= 0
    \/ trip.passenger_count \notin 1..6
    \/ trip.hour \notin 0..23
    \/ trip.day_of_week \notin 0..6
    \/ trip.month \notin 1..12
    \/ trip.pickup_location_id < 1
    \/ trip.dropoff_location_id < 1

\* C12: a request to /predict or /predict_batch that carries a trip with a
\* field outside its bound is answered with the validation failure (422)
\* and model.predict was not invoked for it.
C12_OutOfBoundRejected ==
    (/\ last.endpoint \in {"/predict", "/predict_batch"}
     /\ \E i \in 1..Len(last.trips) : OutOfBound(last.trips[i]))
        => (last.status_code = 422 /\ last.predict_calls = 0)

\* A batch whose second trip has passenger_count = 7 was rejected.
C12_Witness ==
    /\ last.endpoint = "/predict_batch"
    /\ last.trips = <<MinimumTrip, [MinimumTrip EXCEPT !.passenger_count = 7]>>
    /\ last.status_code = 422
    /\ last.predict_calls = 0

\* C13: a request to /predict whose fields all lie within their bounds, the
\* minimum values included, passes validation (no 422); when nothing raises
\* in the handler the answer is 200 with exactly one duration and the model
\* version.
C13_WithinBoundsAnswered ==
    (last.endpoint = "/predict" /\ ~OutOfBound(last.trips[1]))
        => /\ last.status_code # 422
           /\ last.outcome = "ok" =>
                /\ last.status_code = 200
                /\ last.predict_calls = 1
                /\ last.durations = 1
                /\ last.model_version

\* The request with every field at its minimum was answered.
C13_Witness ==
    /\ last.endpoint = "/predict"
    /\ last.trips = <<MinimumTrip>>
    /\ last.status_code = 200
    /\ last.durations = 1
    /\ last.model_version

\* C14: once load_model ran, the registry was tried first and the local
\* file only after the registry load raised; with the registry failing and
\* no local model file the process crashed and has served no request.
C14_RegistryFirstOrFatal ==
    server.status # "starting" =>
        /\ Len(server.tried) >= 1
        /\ server.tried[1] = "mlflow"
        /\ \A i \in 1..Len(server.tried) :
              server.tried[i] = "local" => (i = 2 /\ server.registry = "raises")
        /\ (server.registry = "raises" /\ server.local = "absent") =>
              server.status = "crashed"
        /\ server.status = "crashed" => (last = NoRequestYet /\ errors = 0)

\* The registry failed, no local file: the process crashed at startup.
C14_Witness ==
    /\ server.status = "crashed"
    /\ server.registry = "raises"
    /\ server.local = "absent"
    /\ server.tried = <<"mlflow", "local">>

\* C20: a request whose handler raised is answered 500 and a request whose
\* handler did not raise is answered 200 with its predictions, whatever
\* failed before it; the process is still serving, and no request changes
\* the loaded model or the feature list.
C20_FailureIsLocal ==
    /\ [](last.status_code \in {200, 500} =>
            /\ server.status = "serving"
            /\ last.outcome # "ok" <=> last.status_code = 500
            /\ last.outcome = "ok" =>
                 last.durations =
                    (IF last.endpoint = "/predict" THEN 1 ELSE Len(last.trips)))
    /\ [][last' # last => server' = server]_vars

\* After a 500 a valid request was answered 200.
C20_Witness ==
    /\ errors >= 1
    /\ server.status = "serving"
    /\ last.endpoint = "/predict"
    /\ last.status_code = 200

\* A raw record outside one of the stated bounds: distance in (0,100),
\* passenger count in [1,6], duration in (0,180] minutes.  A missing cell is
\* within no bound.
ViolatesBound(row) ==
    \/ row.trip_distance.nan \/ row.trip_distance.v <= 0 \/ row.trip_distance.v >= 1000
    \/ row.passenger_count.nan \/ row.passenger_count.v \notin 1..6
    \/ row.elapsed.nan \/ row.elapsed.v <= 0 \/ row.elapsed.v > 10800

\* C11: every record of the output of preprocess_data has its distance in
\* (0,100), its passenger count in [1,6] and its duration in (0,180]; it
\* carries the values of the input record it was made from, unaltered; and
\* no input record outside a bound has a record in the output.
C11_CleanedWithinBounds ==
    cleaned.status = "done" =>
        /\ \A j \in 1..Len(cleaned.df) :
              LET c == cleaned.df[j]
              IN  /\ ~c.trip_distance.nan
                  /\ c.trip_distance.v > 0 /\ c.trip_distance.v < 1000
                  /\ ~c.passenger_count.nan
                  /\ c.passenger_count.v \in 1..6
                  /\ ~c.trip_duration.nan
                  /\ c.trip_duration.v > 0 /\ c.trip_duration.v <= 10800
                  /\ c.index \in 1..Len(rows)
                  /\ c.trip_distance = rows[c.index].trip_distance
                  /\ c.passenger_count = rows[c.index].passenger_count
                  /\ c.trip_duration = rows[c.index].elapsed
        /\ \A i \in 1..Len(rows) :
              ViolatesBound(rows[i]) =>
                  ~\E j \in 1..Len(cleaned.df) : cleaned.df[j].index = i

\* A record at distance 100.0 was dropped and the record after it, at
\* 180 minutes, was kept as it was.
C11_Witness ==
    /\ cleaned.status = "done"
    /\ rows = <<[LeastRow EXCEPT !.trip_distance = Num(1000)], GreatestRow>>
    /\ Len(cleaned.df) = 1
    /\ cleaned.df[1].index = 2
    /\ cleaned.df[1].trip_duration = Num(10800)

\* C18: get_predictions_from_api returns exactly n_samples records,
\* whatever the outcomes of the per-sample calls were, and every sample
\* whose call raised or answered a status other than 200 is among them
\* with a locally generated prediction.
C18_ExactlyNSamples ==
    api.pc = "returned" =>
        /\ Len(api.data) = api.n_samples
        /\ \A k \in 1..api.n_samples :
              api.outcomes[k] \in {"non-200", "raises"} =>
                  \E j \in 1..Len(api.data) : api.data[j] = Sample(k, "mock")

\* C15: after one or more calls of trigger_retraining on the fallback path
\* with no consumption of the marker between them, the marker is as one
\* call leaves it (present until a check consumes it), and the checks that
\* follow return true once, the first of them, and false from then on.
C15_TouchIdempotent ==
    burst >= 1 =>
        /\ marker <=> checks = <<>>
        /\ checks \in {<<>>, <<TRUE>>, <<TRUE, FALSE>>, <<FALSE, FALSE>>}

\* Two or more calls, then a check that returned true and one that
\* returned false.
C15_Witness ==
    /\ burst >= 2
    /\ checks = <<TRUE, FALSE>>
    /\ ~marker

\* C19: a cycle in which the download of the reference or of the current
\* partition failed ended with the exception leaving monitor_drift: no
\* verdict was produced and trigger_retraining was not called; and the step
\* that ended it left the marker as it was.
C19_DownloadFailureIsFatal ==
    /\ [](mon.loads \in {"reference raises", "current raises"} =>
            /\ mon.pc = "idle"
            /\ mon.outcome = "raised"
            /\ mon.check = "none"
            /\ mon.triggers = 0
            /\ ~trig.called)
    /\ [][(mon' # mon /\ mon'.loads \in {"reference raises", "current raises"})
            => marker' = marker]_vars

\* The download of the current partition failed while a marker of an
\* earlier cycle was there.
C19_Witness ==
    /\ mon.loads = "current raises"
    /\ mon.outcome = "raised"
    /\ marker

\* Two calls of check_retrain_trigger by different runs that both saw the
\* marker before either deleted it, the marker not touched again before
\* they deleted, and both finished.
RacedPair(r1, r2) ==
    /\ r1 # r2
    /\ run[r1].raced /\ run[r2].raced
    /\ ~run[r1].touched /\ ~run[r2].touched
    /\ run[r1].pc # "unlink" /\ run[r2].pc # "unlink"

\* C17 as stated: of two concurrent calls that both observed the marker as
\* present before either deleted it, both return true.
C17_BothReturnTrue ==
    \A r1 \in Runs, r2 \in Runs :
        RacedPair(r1, r2) => (run[r1].ret = "true" /\ run[r2].ret = "true")

\* C17: of two concurrent calls that both observed the marker as present
\* before either deleted it, exactly one returns true; the unlink of the
\* other raises FileNotFoundError.
C17_OneTrueOneRaises ==
    \A r1 \in Runs, r2 \in Runs :
        RacedPair(r1, r2) =>
            \/ run[r1].ret = "true" /\ run[r2].ret = "raised"
            \/ run[r1].ret = "raised" /\ run[r2].ret = "true"

\* Both runs saw the marker, run1 deleted it and returned true, run2's
\* unlink raised.
C17_Witness ==
    /\ RacedPair("run1", "run2")
    /\ run["run1"].seen /\ run["run2"].seen
    /\ run["run1"].ret = "true"
    /\ run["run2"].ret = "raised"
    /\ ~marker

RECURSIVE ParseInt(_)
ParseInt(chars) ==
    IF chars = <<>> THEN 0
    ELSE LET c == chars[Len(chars)]
             d == {k \in 0..9 : DigitChars[k + 1] = c}
             rest == ParseInt(SubSeq(chars, 1, Len(chars) - 1))
         IN  IF d = {} \/ rest < 0 THEN -1
             ELSE 10 * rest + (CHOOSE k \in d : TRUE)

\* C25: the string get_latest_month returns is 'YYYY-MM' with a two-digit
\* month in 01..12 that names the calendar month before the current one:
\* year y and month m - 1 when the current month m is 2..12, year y - 1 and
\* month 12 in January.
C25_PreviousMonth ==
    latest # NoMonth =>
        /\ Len(latest) = 7
        /\ latest[5] = "-"
        /\ ParseInt(SubSeq(latest, 6, 7)) \in 1..12
        /\ clock.month \in 2..12 =>
              /\ ParseInt(SubSeq(latest, 1, 4)) = clock.year
              /\ ParseInt(SubSeq(latest, 6, 7)) = clock.month - 1
        /\ clock.month = 1 =>
              /\ ParseInt(SubSeq(latest, 1, 4)) = clock.year - 1
              /\ ParseInt(SubSeq(latest, 6, 7)) = 12

\* get_latest_month in January 2024 returned '2023-12'.
C25_Witness ==
    /\ clock = [year |-> 2024, month |-> 1]
    /\ latest = <<"2", "0", "2", "3", "-", "1", "2">>

\* C21: in every run the tasks that succeeded are, in order, a prefix of
\* check_retrain_trigger, get_latest_month, ingest_new_data, retrain_model,
\* update_serving_model; a task has started only when all tasks before it
\* had succeeded; the month given to ingest_data is the one
\* get_latest_month returned in this run, and the month given to
\* train_main is the one ingest_new_data returned, which is that same month.
C21_OrderAndMonth ==
    \A r \in Runs :
        /\ Len(run[r].done) <= Len(TaskOrder)
        /\ \A i \in 1..Len(run[r].done) : run[r].done[i] = TaskOrder[i]
        /\ \A i \in 1..Len(TaskOrder) :
              TaskOrder[i] \in run[r].ran => Len(run[r].done) >= i - 1
        /\ "ingest_new_data" \in run[r].ran =>
              /\ run[r].ingested # NoMonth
              /\ run[r].ingested = run[r].xcom.get_latest_month
        /\ "retrain_model" \in run[r].ran =>
              /\ run[r].trained # NoMonth
              /\ run[r].trained = run[r].xcom.ingest_new_data
              /\ run[r].trained = run[r].xcom.get_latest_month

\* A run started in January 2024 went through all five tasks and trained
\* on '2023-12'.
C21_Witness ==
    /\ run["run1"].pc = "success"
    /\ run["run1"].done = TaskOrder
    /\ run["run1"].xcom.get_latest_month = <<"2", "0", "2", "3", "-", "1", "2">>
    /\ run["run1"].trained = <<"2", "0", "2", "3", "-", "1", "2">>

\* C22: a step in which the marker appears is the trigger_retraining call
\* of a monitoring cycle whose verdict is detected; a step in which it
\* disappears is the unlink of a check_retrain_trigger call that saw it;
\* the check_drift step of a cycle, and the step that ends a cycle whose
\* verdict is not detected, leave the marker as it was.
C22_MarkerLifecycle ==
    [][/\ (~marker /\ marker') =>
            /\ mon.pc = "trigger_retraining"
            /\ mon.drift_detected
            /\ trig'.called /\ ~trig'.before /\ trig'.after
       /\ (marker /\ ~marker') =>
            \E r \in Runs :
                /\ run[r].pc = "unlink" /\ run[r].seen
                /\ run'[r].ret = "true" /\ run'[r].pc # "unlink"
       /\ (mon.pc = "check_drift" /\ mon' # mon) => marker' = marker
       /\ (mon' # mon /\ mon'.outcome = "returned" /\ ~mon'.ret) =>
            (marker' = marker /\ ~trig'.called)
      ]_vars

\* A cycle that detected drift created the marker and a check consumed it.
C22_Witness ==
    /\ mon.drift_detected
    /\ trig.called /\ ~trig.before /\ trig.after
    /\ checks = <<TRUE>>
    /\ ~marker

\* C23: with trigger_retraining calls and the check_retrain_trigger calls
\* of concurrent runs interleaved in any way, the checks that returned true
\* never outnumber the marker touches made so far (the count kept is the
\* touches less the true returns, and is never above the real difference);
\* and a check whose unlink found the marker gone has raised, not returned
\* true.
C23_TruesWithinTouches ==
    /\ [](unconsumed >= 0)
    /\ [][\A r \in Runs :
            (run[r].pc = "unlink" /\ run'[r].pc # "unlink" /\ ~marker) =>
                /\ run'[r].ret = "raised"
                /\ ~marker'
                /\ unconsumed' = unconsumed
         ]_vars

\* One touch, two concurrent checks that both saw the marker: one returned
\* true, the unlink of the other raised, and no touch is left unmatched.
C23_Witness ==
    /\ unconsumed = 0
    /\ run["run1"].raced /\ run["run2"].raced
    /\ run["run2"].ret = "true" /\ run["run2"].pc # "unlink"
    /\ run["run1"].ret = "raised" /\ run["run1"].pc # "unlink"
    /\ ~run["run1"].touched /\ ~run["run2"].touched

\* C24: once a run whose check returned true has failed in ingest_new_data
\* or retrain_model, its retries used up, and for as long as
\* trigger_retraining is not called again: the marker is absent, no check
\* is about to delete it, every check made since returned false, and the
\* only run with a true check is the one that failed.
C24_FailedRunLosesTrigger ==
    \A r \in Runs :
        run[r].lost =>
            /\ ~marker
            /\ \A q \in Runs : run[q].pc # "unlink"
            /\ checks \in {<<TRUE>>, <<TRUE, FALSE>>, <<FALSE, FALSE>>}
            /\ run[r].ret = "true" =>
                  /\ run[r].pc = "failed"
                  /\ run[r].try_number = retries + 1
                  /\ run[r].ran \cap {"ingest_new_data", "retrain_model"} # {}
                  /\ "update_serving_model" \notin run[r].ran
            /\ run[r].ret # "true" => run[r].ret \in {"none", "false"}

\* Training failed twice after the marker was consumed; the next run's
\* check returned false.
C24_Witness ==
    /\ run["run1"].lost
    /\ run["run1"].ret = "false"
    /\ checks = <<TRUE, FALSE>>
    /\ ~marker

\* C26: a download_nyc_taxi_data call that finds the partition file makes
\* no request and returns the path, the file staying as it is; a download
\* that broke while writing leaves a partial file; and a partial file is
\* never replaced, so every later call for that month returns it.
C26_ExistingFileIsReturned ==
    /\ [](dl.month # "none" =>
            /\ dl.before # "absent" =>
                  /\ dl.requests = 0
                  /\ ~dl.raised
                  /\ dl.ret = "filepath"
                  /\ disk[dl.month] = dl.before
            /\ (dl.before = "absent" /\ dl.net = "write fails") =>
                  (dl.raised /\ disk[dl.month] = "partial"))
    /\ [][\A m \in Months : disk[m] = "partial" => disk'[m] = "partial"]_vars

\* A call for a month whose file is partial, the network being fine: the
\* partial file was returned and no request made.
C26_Witness ==
    /\ dl.month = "2024-10"
    /\ dl.before = "partial"
    /\ dl.net = "ok"
    /\ dl.requests = 0
    /\ dl.ret = "filepath"
    /\ disk["2024-10"] = "partial"

====
